---- MODULE Spec2Model ----
(***************************************************************************)
(* Model of the single-elimination tournament engine of                    *)
(* src/tournament/bracket.py: TournamentState persistence, Tournament      *)
(* construction (fresh start or resume), verdict parsing, the run() loop   *)
(* with its batches, and advance_round().                                  *)
(***************************************************************************)
EXTENDS Integers, Sequences, FiniteSets, TLC

(* ---------------------------- bounds ----------------------------------- *)
\* largest number of image files found in the images directory
MaxN == 4
\* largest batch_size passed to run()
MaxBatch == 2

\* longest of the enumerated oracle replies
MaxReplyLen == 3

(* ---------------------------- constants -------------------------------- *)
\* Optional[str] = None for Match.winner and TournamentState.winner_id
None == 0
\* variant: the keyword scan reads the whole text
FallbackScanAll == 20 * 50
\* response_text.lower()[:50]
FallbackScanLen == 50

VARIABLES
    images,         \* files under images_dir: sequence of [name, content]
    contestants,    \* Tournament.contestants: id -> [eliminated, wins, losses]
    matches,        \* Tournament.matches: sequence of Match records
    current_round,  \* Tournament.state.current_round
    total_rounds,   \* Tournament.state.total_rounds
    winner_id,      \* Tournament.state.winner_id
    disk,           \* the state file at state_path
    pc,             \* position of the process: "off", "discovered",
                    \* "constructed", "loop", "batch", "done"; "crashed"
                    \* (killed), "aborted" (ended by an exception of save),
                    \* "loadfailed", "nopool"
    batch_size,     \* argument of run()
    batch,          \* local `batch` of run(): indexes into matches
    bi,             \* position of the `for match in batch` iterator
    response,       \* response.content[0].text of the oracle call under way
    document,       \* the JSON document of a state file under load or save
    loaded          \* the TournamentState object built from or saved to it

vars == <<images, contestants, matches, current_round, total_rounds,
          winner_id, disk, pc, batch_size, batch, bi,
          response, document, loaded>>

mem == <<contestants, matches, current_round, total_rounds, winner_id>>

\* the engine: what the tournament scenarios are made of
engine == <<images, mem, disk, batch_size, batch, bi>>

\* what the scenarios of a single oracle reply and of a single state file
\* are made of, next to pc
side == <<response, document, loaded>>

(* ------------------------ generic helpers ------------------------------ *)
Range(s) == {s[i] : i \in DOMAIN s}

Min(a, b) == IF a < b THEN a ELSE b

\* s[:k] of a Python list
Take(s, k) == SubSeq(s, 1, Min(k, Len(s)))

\* s[k:] of a Python list
Drop(s, k) == SubSeq(s, Min(k, Len(s)) + 1, Len(s))

\* the outcomes of random.shuffle on a list holding the elements of S
Perms(S) == {p \in [1..Cardinality(S) -> S] :
                \A i, j \in 1..Cardinality(S) : p[i] = p[j] => i = j}

\* the elements of a set of integers in ascending order
RECURSIVE SortedSeq(_)
SortedSeq(S) ==
    IF S = {} THEN <<>>
    ELSE LET m == CHOOSE x \in S : \A y \in S : x <= y
         IN <<m>> \o SortedSeq(S \ {m})

(* --------------------------- text -------------------------------------- *)
\* Texts are sequences of one-character strings.
Lowers == <<"a","b","c","d","e","f","g","h","i","j","k","l","m",
            "n","o","p","q","r","s","t","u","v","w","x","y","z">>
Uppers == <<"A","B","C","D","E","F","G","H","I","J","K","L","M",
            "N","O","P","Q","R","S","T","U","V","W","X","Y","Z">>
Whitespace == {" ", "\n", "\t", "\r"}

UpperChar(c) == IF \E i \in 1..26 : Lowers[i] = c
                THEN Uppers[CHOOSE i \in 1..26 : Lowers[i] = c] ELSE c
LowerChar(c) == IF \E i \in 1..26 : Uppers[i] = c
                THEN Lowers[CHOOSE i \in 1..26 : Uppers[i] = c] ELSE c

\* str.upper() / str.lower()
Upper(t) == [i \in 1..Len(t) |-> UpperChar(t[i])]
Lower(t) == [i \in 1..Len(t) |-> LowerChar(t[i])]

\* str.strip()
Strip(t) ==
    LET keep == {i \in 1..Len(t) : t[i] \notin Whitespace}
    IN IF keep = {} THEN <<>>
       ELSE LET lo == CHOOSE i \in keep : \A j \in keep : i <= j
                hi == CHOOSE i \in keep : \A j \in keep : j <= i
            IN SubSeq(t, lo, hi)

\* t.split('\n')[0]
FirstLine(t) ==
    LET nl == {i \in 1..Len(t) : t[i] = "\n"}
    IN IF nl = {} THEN t
       ELSE SubSeq(t, 1, (CHOOSE i \in nl : \A j \in nl : i <= j) - 1)

\* c in t, for a one-character c
HasChar(t, c) == \E i \in 1..Len(t) : t[i] = c

\* needle in t
Contains(t, needle) ==
    \E i \in 0..(Len(t) - Len(needle)) :
        \A j \in 1..Len(needle) : t[i + j] = needle[j]

\* t.startswith(prefix)
StartsWith(t, prefix) ==
    /\ Len(prefix) <= Len(t)
    /\ \A j \in 1..Len(prefix) : t[j] = prefix[j]

ImageA == <<"i","m","a","g","e"," ","a">>

\* the texts the oracle answers with (response.content[0].text)
ReplyA     == <<" ","A">>
ReplyBoth  == <<"A"," ","o","r"," ","B">>
ReplyLabel == <<"h","m","m","\n","i","m","a","g","e"," ","a">>
ReplyOther == <<"l","e","f","t">>
Replies == {ReplyA, ReplyBoth, ReplyLabel, ReplyOther}

(* --------------------------- verdict ----------------------------------- *)
\* variant: a first line holding both letters is sent to the keyword scan
ParseVerdictScanOnBoth(response_text, m) ==
    LET first_line == Upper(Strip(FirstLine(response_text)))
    IN IF HasChar(first_line, "A") /\ ~HasChar(first_line, "B")
          THEN m.contestant_a
       ELSE IF HasChar(first_line, "B") /\ ~HasChar(first_line, "A")
          THEN m.contestant_b
       ELSE IF \/ StartsWith(Lower(response_text), <<"a">>)
               \/ Contains(Take(Lower(response_text), FallbackScanLen), ImageA)
          THEN m.contestant_a
       ELSE m.contestant_b

\* the winner chosen from the stripped reply text
ParseVerdict(response_text, m) ==
    LET first_line == Upper(Strip(FirstLine(response_text)))
    IN IF HasChar(first_line, "A") /\ ~HasChar(first_line, "B")
          THEN m.contestant_a
       ELSE IF HasChar(first_line, "B")
          THEN m.contestant_b
       ELSE IF \/ StartsWith(Lower(response_text), <<"a">>)
               \/ Contains(Take(Lower(response_text), FallbackScanLen), ImageA)
          THEN m.contestant_a
       ELSE m.contestant_b

\* variant: _judge_match records the winner and leaves completed unset
JudgedMatchNotFlagged(m, reply) ==
    [m EXCEPT !.winner = ParseVerdict(Strip(reply), m)]

\* the match after a successful _judge_match; the reasoning text is stored
\* with the match and never read by the engine, it is not kept here
JudgedMatch(m, reply) ==
    LET response_text == Strip(reply)
    IN [m EXCEPT !.winner = ParseVerdict(response_text, m),
                 !.completed = TRUE]

(* --------------------------- data model -------------------------------- *)
\* Contestant(id=cid, ...): eliminated=False, wins=0, losses=0
NewContestant(cid) == [id |-> cid, eliminated |-> FALSE, wins |-> 0, losses |-> 0]

\* Match(id, round_num, contestant_a, contestant_b): winner None, not completed
NewMatch(mid, r, a, b) ==
    [id |-> mid, round_num |-> r, contestant_a |-> a, contestant_b |-> b,
     winner |-> None, completed |-> FALSE]

\* the empty mapping / list of a TournamentState() built with defaults
NoContestants == [c \in {} |-> NewContestant(c)]

\* TournamentState(): the dataclass defaults
DefaultState ==
    [contestants |-> NoContestants, matches |-> <<>>, current_round |-> 1,
     total_rounds |-> 0, winner_id |-> None]

\* the state file: missing, holding a complete JSON document, or holding
\* the truncated output of an interrupted json.dump
NoFile == [status |-> "absent", data |-> DefaultState]
TornFile == [status |-> "torn", data |-> DefaultState]
GoodFile(d) == [status |-> "ok", data |-> d]

(* --------------------------- persistence ------------------------------- *)
\* a TournamentState with the given fields
State(cs, ms, r, tr, w) ==
    [contestants |-> cs, matches |-> ms, current_round |-> r,
     total_rounds |-> tr, winner_id |-> w]

\* variant: _save_state does not refresh self.state.matches, so the file
\* keeps the match list it had
SnapshotStaleMatches(st) ==
    [contestants |-> st.contestants,
     matches |-> IF disk.status = "ok" THEN disk.data.matches ELSE <<>>,
     current_round |-> st.current_round, total_rounds |-> st.total_rounds,
     winner_id |-> st.winner_id]

\* what _save_state hands to json.dump: asdict(self.state) after copying
\* the contestants and the matches of the Tournament into self.state
Snapshot(st) ==
    [contestants |-> st.contestants, matches |-> st.matches,
     current_round |-> st.current_round, total_rounds |-> st.total_rounds,
     winner_id |-> st.winner_id]

\* ways TournamentState.save can end: it returns; the process is killed
\* before open() or between open(path, 'w') and the end of json.dump; or
\* mkdir/open raises, or a write raises after the file was truncated
SaveOutcomes == {"ok", "killed_before", "killed_during",
                 "error_before", "error_during"}

\* the state file after TournamentState.save(path) of snapshot d
WriteFile(old, d, outcome) ==
    CASE outcome = "ok" -> GoodFile(d)
      [] outcome \in {"killed_before", "error_before"} -> old
      [] outcome \in {"killed_during", "error_during"} -> TornFile

\* variant: an exception of save is caught and the engine goes on
AfterSaveSwallowed(outcome, next) ==
    CASE outcome \in {"ok", "error_before", "error_during"} -> next
      [] outcome \in {"killed_before", "killed_during"} -> "crashed"

\* where the process is after _save_state: at `next` when save returned;
\* dead when it was killed; ended by the exception when save raised, since
\* nothing between save and the top of main() catches it
AfterSave(outcome, next) ==
    CASE outcome = "ok" -> next
      [] outcome \in {"killed_before", "killed_during"} -> "crashed"
      [] outcome \in {"error_before", "error_during"} -> "aborted"

(* --------------------------- scheduler --------------------------------- *)
\* int.bit_length(): the number of bits of the absolute value
RECURSIVE BitLength(_)
BitLength(k) ==
    IF k = 0 THEN 0
    ELSE IF k < 0 THEN BitLength(-k)
    ELSE 1 + BitLength(k \div 2)

\* variant: the bit length of n instead of n - 1
TotalRoundsOfN(n) == BitLength(n)

\* (n - 1).bit_length()
TotalRounds(n) == BitLength(n - 1)

RECURSIVE Pow2(_)
Pow2(k) == IF k = 0 THEN 1 ELSE 2 * Pow2(k - 1)

\* variant: no contestant is given a bye
ByesNeededNone(n) == 0

\* variant: one bye more than the bracket needs
ByesNeededOneMore(n) == Pow2(TotalRounds(n)) - n + 1

\* byes_needed = bracket_size - n
ByesNeeded(n) == Pow2(TotalRounds(n)) - n

\* variant: both sides of a match are read from the same position
PairMatchesSamePosition(ids, r) ==
    [k \in 1..(Len(ids) \div 2) |->
        NewMatch(<<r, k - 1>>, r, ids[2 * k - 1], ids[2 * k - 1])]

\* variant: the pairing loop moves on by one position instead of two
PairMatchesOverlapping(ids, r) ==
    [k \in 1..(Len(ids) \div 2) |->
        NewMatch(<<r, k - 1>>, r, ids[k], ids[k + 1])]

\* the pairing loop: for i in range(0, len(ids), 2): if i + 1 < len(ids)
PairMatches(ids, r) ==
    [k \in 1..(Len(ids) \div 2) |->
        NewMatch(<<r, k - 1>>, r, ids[2 * k - 1], ids[2 * k])]

\* wins += 1 for every id of the set S
AwardByes(cs, S) ==
    [c \in DOMAIN cs |-> IF c \in S THEN [cs[c] EXCEPT !.wins = @ + 1] ELSE cs[c]]

\* variant: the id is derived from the name of the file
ContentHashOfName(img) == img.name

\* content_hash = hashlib.md5(f.read()).hexdigest()[:12]: the content of a
\* file is represented by its digest, so that files of equal bytes carry
\* the same number whatever their name or position
ContentHash(img) == img.content

\* _discover_images: the keys of self.contestants, one per content hash
DiscoverImages(imgs) == {ContentHash(imgs[i]) : i \in DOMAIN imgs}

\* _discover_images: self.contestants[cid] = Contestant(id=cid, ...), a
\* later file of the same content replacing the earlier entry
DiscoveredContestants(imgs) == [c \in DiscoverImages(imgs) |-> NewContestant(c)]

(* --------------------------- engine helpers ---------------------------- *)
\* variant: the winner of the match is taken for its loser
LoserIsWinner(m) == m.winner

\* loser_id = match.contestant_a if match.winner == match.contestant_b
\*            else match.contestant_b
Loser(m) == IF m.winner = m.contestant_b THEN m.contestant_a ELSE m.contestant_b

\* get_pending_matches: indexes, in list order
PendingIn(ms, r) ==
    SortedSeq({i \in 1..Len(ms) : ms[i].round_num = r /\ ~ms[i].completed})

\* variant: the first loop of advance_round leaves the wins alone
RECURSIVE ApplyResultsNoWins(_, _, _, _)
ApplyResultsNoWins(cs, ms, r, i) ==
    IF i > Len(ms) THEN cs
    ELSE IF ms[i].round_num = r /\ ms[i].completed
         THEN LET l == IF ms[i].winner = ms[i].contestant_b
                       THEN ms[i].contestant_a ELSE ms[i].contestant_b
              IN ApplyResultsNoWins([cs EXCEPT ![l].eliminated = TRUE,
                                               ![l].losses = @ + 1], ms, r, i + 1)
         ELSE ApplyResultsNoWins(cs, ms, r, i + 1)

\* variant: the first loop of advance_round eliminates the losers without
\* counting the loss
RECURSIVE ApplyResultsKeepsLosses(_, _, _, _)
ApplyResultsKeepsLosses(cs, ms, r, i) ==
    IF i > Len(ms) THEN cs
    ELSE IF ms[i].round_num = r /\ ms[i].completed
         THEN LET l == IF ms[i].winner = ms[i].contestant_b
                       THEN ms[i].contestant_a ELSE ms[i].contestant_b
                  c1 == [cs EXCEPT ![l].eliminated = TRUE]
                  c2 == [c1 EXCEPT ![ms[i].winner].wins = @ + 1]
              IN ApplyResultsKeepsLosses(c2, ms, r, i + 1)
         ELSE ApplyResultsKeepsLosses(cs, ms, r, i + 1)

\* the first loop of advance_round, over self.matches in list order
RECURSIVE ApplyResults(_, _, _, _)
ApplyResults(cs, ms, r, i) ==
    IF i > Len(ms) THEN cs
    ELSE IF ms[i].round_num = r /\ ms[i].completed
         THEN LET l == Loser(ms[i])
                  c1 == [cs EXCEPT ![l].eliminated = TRUE, ![l].losses = @ + 1]
                  c2 == [c1 EXCEPT ![ms[i].winner].wins = @ + 1]
              IN ApplyResults(c2, ms, r, i + 1)
         ELSE ApplyResults(cs, ms, r, i + 1)

\* remaining = [cid for cid, c in contestants.items() if not c.eliminated]
Remaining(cs) == {c \in DOMAIN cs : ~cs[c].eliminated}

\* variant: the tournament is declared over with two contestants left
HaveWinnerAtMostTwo(rem) == Cardinality(rem) \in {1, 2}

\* if len(remaining) == 1
HaveWinner(rem) == Cardinality(rem) = 1

\* variant: the batch is taken in reverse list order
BatchOfReversed(pending, bs) ==
    [i \in 1..Min(bs, Len(pending)) |-> pending[Min(bs, Len(pending)) + 1 - i]]

\* batch = pending[:batch_size]
BatchOf(pending, bs) == Take(pending, bs)

(* --------------------------- construction ------------------------------ *)
\* _create_round_matches(contestant_ids, byes) in round r
CreateRoundMatches(cs, ms, ids, byes, r) ==
    [contestants |-> AwardByes(cs, Range(Take(ids, byes))),
     matches |-> ms \o PairMatches(Drop(ids, byes), r)]

\* _initialize_tournament on the shuffled ids, up to the call of _save_state
InitializeTournament(st, cs, ids) ==
    LET n == Len(ids)
        built == CreateRoundMatches(cs, <<>>, ids, ByesNeeded(n), st.current_round)
    IN State(built.contestants, built.matches, st.current_round,
             TotalRounds(n), st.winner_id)

\* variant: a resumed tournament starts over at round 1
LoadStateRoundOne(d) == [d EXCEPT !.current_round = 1]

\* _load_state, resume branch: the contestants and matches of the file
LoadState(d) == d

\* the pc values at which main() can be started: never run, process killed
\* or ended by an exception (contestants .. winner_id then hold the last
\* memory of that process), or run() returned
Restartable == {"off", "crashed", "aborted", "done"}

\* TournamentState.load: the file when it exists, else the defaults
LoadedState == IF disk.status = "ok" THEN disk.data ELSE DefaultState

\* Tournament(images_dir, state_path): json.load raises on a truncated file
LoadFails ==
    /\ pc \in Restartable
    /\ disk.status = "torn"
    /\ pc' = "loadfailed"
    /\ contestants' = NoContestants
    /\ matches' = <<>>
    /\ current_round' = DefaultState.current_round
    /\ total_rounds' = DefaultState.total_rounds
    /\ winner_id' = DefaultState.winner_id
    /\ UNCHANGED <<images, disk, batch_size, batch, bi>>
    /\ UNCHANGED side

\* Tournament(images_dir, state_path) on a state file with contestants
Resume ==
    /\ pc \in Restartable
    /\ disk.status = "ok"
    /\ DOMAIN disk.data.contestants # {}
    /\ LET st == LoadState(disk.data)
       IN /\ contestants' = st.contestants
          /\ matches' = st.matches
          /\ current_round' = st.current_round
          /\ total_rounds' = st.total_rounds
          /\ winner_id' = st.winner_id
    /\ pc' = "constructed"
    /\ UNCHANGED <<images, disk, batch_size, batch, bi>>
    /\ UNCHANGED side

\* Tournament(images_dir, state_path) without stored contestants, up to
\* the return of _discover_images
Discover ==
    /\ pc \in Restartable
    /\ disk.status # "torn"
    /\ DOMAIN LoadedState.contestants = {}
    /\ contestants' = DiscoveredContestants(images)
    /\ matches' = <<>>
    /\ current_round' = LoadedState.current_round
    /\ total_rounds' = LoadedState.total_rounds
    /\ winner_id' = LoadedState.winner_id
    /\ pc' = "discovered"
    /\ UNCHANGED <<images, disk, batch_size, batch, bi>>
    /\ UNCHANGED side

\* variant: an empty pool is not detected
PoolIsEmptyNever(cs) == FALSE

\* if not self.contestants
PoolIsEmpty(cs) == DOMAIN cs = {}

\* _initialize_tournament without contestants: raise ValueError, which ends
\* the construction and the process
EmptyPool ==
    /\ pc = "discovered"
    /\ PoolIsEmpty(contestants)
    /\ pc' = "nopool"
    /\ UNCHANGED <<images, mem, disk, batch_size, batch, bi>>
    /\ UNCHANGED side

\* _initialize_tournament with contestants: shuffle, total_rounds, the
\* matches of round 1, _save_state
StartFresh ==
    /\ pc = "discovered"
    /\ ~PoolIsEmpty(contestants)
    /\ \E ids \in Perms(DOMAIN contestants), outcome \in SaveOutcomes :
         LET st == InitializeTournament(State(contestants, matches, current_round,
                                              total_rounds, winner_id),
                                        contestants, ids)
         IN /\ contestants' = st.contestants
            /\ matches' = st.matches
            /\ current_round' = st.current_round
            /\ total_rounds' = st.total_rounds
            /\ winner_id' = st.winner_id
            /\ disk' = WriteFile(disk, Snapshot(st), outcome)
            /\ pc' = AfterSave(outcome, "constructed")
    /\ UNCHANGED <<images, batch_size, batch, bi>>
    /\ UNCHANGED side

(* --------------------------- run() ------------------------------------- *)
\* run() is not executing: its argument and locals do not exist
NoLocals == batch_size' = 1 /\ batch' = <<>> /\ bi' = 1

\* run(batch_size): entry, up to the first test of the while condition
Run ==
    /\ pc \in {"constructed", "done"}
    /\ \E bs \in 1..MaxBatch : batch_size' = bs
    /\ batch' = <<>>
    /\ bi' = 1
    /\ pc' = "loop"
    /\ UNCHANGED <<images, mem, disk>>
    /\ UNCHANGED side

\* variant: the loop does not stop on a winner
LoopAlways(w) == TRUE

\* while self.state.winner_id is None
LoopCondition(w) == w = None

\* the while condition is false: the finalizer (copy of the winner's image,
\* credit.json; no tournament state is touched) runs and run() returns
ExitLoop ==
    /\ pc = "loop"
    /\ ~LoopCondition(winner_id)
    /\ pc' = "done"
    /\ NoLocals
    /\ UNCHANGED <<images, mem, disk>>
    /\ UNCHANGED side

\* a pass of the while loop that finds pending matches: batch = pending[:batch_size]
StartBatch ==
    /\ pc = "loop"
    /\ LoopCondition(winner_id)
    /\ PendingIn(matches, current_round) # <<>>
    /\ batch' = BatchOf(PendingIn(matches, current_round), batch_size)
    /\ bi' = 1
    /\ pc' = IF batch' = <<>> THEN "loop" ELSE "batch"
    /\ UNCHANGED <<images, mem, disk, batch_size>>
    /\ UNCHANGED side

\* variant: the list is rebuilt from the matches of the new round
NextRoundMatchesOnly(ms, ids, r) == PairMatches(ids, r)

\* the matches of the next round, appended to the list
NextRoundMatches(ms, ids, r) == ms \o PairMatches(ids, r)

\* variant: the unpaired last id is left as it is
OddByeNone(ids) == {}

\* the else branch of the pairing loop: the unpaired last id
OddBye(ids) == IF Len(ids) % 2 = 1 THEN {ids[Len(ids)]} ELSE {}

\* advance_round() up to its _save_state, for one outcome of the shuffle
AdvanceRound(cs, ms, r, tr, w, ids) ==
    LET cs1 == ApplyResults(cs, ms, r, 1)
        rem == Remaining(cs1)
    IN IF HaveWinner(rem)
       THEN State(cs1, ms, r, tr, CHOOSE c \in rem : TRUE)
       ELSE State(AwardByes(cs1, OddBye(ids)),
                  NextRoundMatches(ms, ids, r + 1), r + 1, tr, w)

\* a pass of the while loop that finds no pending match: advance_round(),
\* then break on a winner, else the batch of the new round
AdvanceStep ==
    /\ pc = "loop"
    /\ LoopCondition(winner_id)
    /\ PendingIn(matches, current_round) = <<>>
    /\ \E ids \in Perms(Remaining(ApplyResults(contestants, matches, current_round, 1))),
          outcome \in SaveOutcomes :
         LET st == AdvanceRound(contestants, matches, current_round,
                                total_rounds, winner_id, ids)
             nb == BatchOf(PendingIn(st.matches, st.current_round), batch_size)
         IN /\ contestants' = st.contestants
            /\ matches' = st.matches
            /\ current_round' = st.current_round
            /\ total_rounds' = st.total_rounds
            /\ winner_id' = st.winner_id
            /\ disk' = WriteFile(disk, Snapshot(st), outcome)
            /\ IF outcome # "ok"
                 THEN pc' = AfterSave(outcome, "loop") /\ NoLocals
               ELSE IF st.winner_id # None
                 THEN pc' = "done" /\ NoLocals
               ELSE /\ batch' = nb
                    /\ bi' = 1
                    /\ pc' = IF nb = <<>> THEN "loop" ELSE "batch"
                    /\ UNCHANGED batch_size
    /\ UNCHANGED images
    /\ UNCHANGED side

\* the position after the body of `for match in batch` ran for batch[bi]
NextInBatch == IF bi + 1 > Len(batch) THEN "loop" ELSE "batch"

\* the iterator moves on; after the last match the batch is dead (it is
\* assigned again before it is read)
AdvanceIterator ==
    /\ batch_size' = batch_size
    /\ IF bi + 1 > Len(batch)
         THEN batch' = <<>> /\ bi' = 1
         ELSE batch' = batch /\ bi' = bi + 1

\* variant: the iteration also counts the win of the match for its winner
JudgeMatchCountsWin ==
    /\ pc = "batch"
    /\ bi <= Len(batch)
    /\ \E judged \in {JudgedMatch(matches[batch[bi]], reply) : reply \in Replies},
          outcome \in SaveOutcomes :
         LET ms == [matches EXCEPT ![batch[bi]] = judged]
             cs == [contestants EXCEPT ![judged.winner].wins = @ + 1]
         IN /\ matches' = ms
            /\ contestants' = cs
            /\ disk' = WriteFile(disk, Snapshot(State(cs, ms, current_round,
                                          total_rounds, winner_id)), outcome)
            /\ pc' = AfterSave(outcome, NextInBatch)
            /\ IF outcome = "ok"
                 THEN AdvanceIterator
                 ELSE NoLocals
    /\ UNCHANGED <<images, current_round, total_rounds, winner_id>>
    /\ UNCHANGED side

\* one iteration of `for match in batch` in which _judge_match returns:
\* the match is completed in memory, then _save_state
JudgeMatch ==
    /\ pc = "batch"
    /\ bi <= Len(batch)
    /\ \E judged \in {JudgedMatch(matches[batch[bi]], reply) : reply \in Replies},
          outcome \in SaveOutcomes :
         LET ms == [matches EXCEPT ![batch[bi]] = judged]
         IN /\ matches' = ms
            /\ disk' = WriteFile(disk, Snapshot(State(contestants, ms, current_round,
                                          total_rounds, winner_id)), outcome)
            /\ pc' = AfterSave(outcome, NextInBatch)
            /\ IF outcome = "ok"
                 THEN AdvanceIterator
                 ELSE NoLocals
    /\ UNCHANGED <<images, contestants, current_round, total_rounds, winner_id>>
    /\ UNCHANGED side

\* variant: the exception of a failed oracle call leaves run()
OnJudgeErrorRaise(next) == "aborted"

\* the except branch: where the engine goes after a failed oracle call
OnJudgeError(next) == next

\* one iteration of `for match in batch` in which _judge_match raises
\* (image unreadable, oracle unavailable or refusing): except ... continue
JudgeError ==
    /\ pc = "batch"
    /\ bi <= Len(batch)
    /\ pc' = OnJudgeError(NextInBatch)
    /\ AdvanceIterator
    /\ UNCHANGED <<images, mem, disk>>
    /\ UNCHANGED side

\* the process is killed outside of a state write
Crash ==
    /\ pc \in {"discovered", "constructed", "loop", "batch"}
    /\ pc' = "crashed"
    /\ NoLocals
    /\ UNCHANGED <<images, mem, disk>>
    /\ UNCHANGED side

(* --------------------------- specification ----------------------------- *)
\* no oracle call is under way
NoReply == <<>>

\* no state file is under load or save
NoDocument == <<>>

\* the ways n files share their contents: file i has content f[i], the
\* contents being numbered in the order of their first file
ContentMaps(n) ==
    {f \in [1..n -> 1..n] :
        \A i \in 1..n : \A c \in 1..(f[i] - 1) : \E j \in 1..(i - 1) : f[j] = c}

\* the images directory holds the files 1..Len(f), file i of content f[i]
ImagePool(f) == [i \in 1..Len(f) |-> [name |-> i, content |-> f[i]]]

Init ==
    /\ images \in {ImagePool(f) : f \in UNION {ContentMaps(n) : n \in 0..MaxN}}
    /\ contestants = NoContestants
    /\ matches = <<>>
    /\ current_round = DefaultState.current_round
    /\ total_rounds = DefaultState.total_rounds
    /\ winner_id = DefaultState.winner_id
    /\ disk = NoFile
    /\ pc = "off"
    /\ batch_size = 1
    /\ batch = <<>>
    /\ bi = 1
    /\ response = NoReply
    /\ document = NoDocument
    /\ loaded = NoDocument

Next ==
    \/ LoadFails
    \/ Resume
    \/ Discover
    \/ EmptyPool
    \/ StartFresh
    \/ Run
    \/ ExitLoop
    \/ StartBatch
    \/ AdvanceStep
    \/ JudgeMatch
    \/ JudgeError
    \/ Crash

Spec == Init /\ [][Next]_vars

\* a step of a process or the start of one by main(): every step of Next
\* but the kill of the process
Proceeds ==
    \/ LoadFails
    \/ Resume
    \/ Discover
    \/ EmptyPool
    \/ StartFresh
    \/ Run
    \/ ExitLoop
    \/ StartBatch
    \/ AdvanceStep
    \/ JudgeError
    \/ JudgeMatch

\* the engine under the scheduling of a run to completion: a process that
\* can take a step takes one, and a process that ended is started again
FairSpec == Spec /\ WF_vars(Proceeds)

(* ------------------- one oracle reply, step by step -------------------- *)
\* the characters the enumerated replies are made of
ReplyAlphabet == {"A", "a", "B", "b", "x", " ", "\n"}

\* every text of at most MaxReplyLen characters
ShortReplies == UNION {[1..n -> ReplyAlphabet] : n \in 0..MaxReplyLen}

\* k filler characters
Filler(k) == [i \in 1..k |-> "."]

\* replies that name an image on their second line, at the start of it or
\* around the 50th character of the text
LabelReplies ==
    {head \o <<"\n">> \o Filler(k) \o label :
        head \in {<<"x">>, <<"B">>, <<"A">>, <<"A", " ", "B">>, <<"b", "a">>},
        k \in {0, 41, 42},
        label \in {ImageA, <<"I","m","a","g","e"," ","A">>, <<"i","m","a","g","e"," ","b">>}}

\* the texts response.content[0].text is drawn from
ReplyTexts == ShortReplies \cup LabelReplies

\* run() is about to judge the only match of a tournament of two contestants
VerdictInit ==
    /\ images = ImagePool(<<1, 2>>)
    /\ contestants = DiscoveredContestants(images)
    /\ \E a, b \in DOMAIN contestants :
          a # b /\ matches = <<NewMatch(<<1, 0>>, 1, a, b)>>
    /\ current_round = 1
    /\ total_rounds = TotalRounds(2)
    /\ winner_id = None
    /\ disk = GoodFile(Snapshot(State(contestants, matches, current_round,
                                       total_rounds, winner_id)))
    /\ pc = "batch"
    /\ batch_size = 1
    /\ batch = <<1>>
    /\ bi = 1
    /\ response = NoReply
    /\ document = NoDocument
    /\ loaded = NoDocument

\* _judge_match: self.client.messages.create returns a reply
OracleReplies ==
    /\ pc = "batch"
    /\ \E text \in ReplyTexts : response' = text
    /\ pc' = "replied"
    /\ UNCHANGED <<engine, document, loaded>>

\* _judge_match: the reply is parsed and the match is completed
ParseReply ==
    /\ pc = "replied"
    /\ matches' = [matches EXCEPT ![batch[bi]] = JudgedMatch(matches[batch[bi]], response)]
    /\ pc' = "judged"
    /\ UNCHANGED <<images, contestants, current_round, total_rounds, winner_id,
                   disk, batch_size, batch, bi, side>>

VerdictNext ==
    \/ OracleReplies
    \/ ParseReply

VerdictSpec == VerdictInit /\ [][VerdictNext]_vars

(* ------------------- one state file, step by step ---------------------- *)
\* the fields of the TournamentState dataclass
StateFields == {"contestants", "matches", "current_round", "total_rounds",
                "started_at", "last_updated", "winner_id"}

\* the fields of the Contestant and Match dataclasses kept in this model
ContestantFields == {"id", "eliminated", "wins", "losses"}
MatchFields == {"id", "round_num", "contestant_a", "contestant_b", "winner",
                "completed"}

\* JSON null, which json.dump writes for None and json.load reads as None;
\* ids are natural numbers here, the number -1 stands for null
JsonNull == 0 - 1
ToJson(v) == IF v = None THEN JsonNull ELSE v
FromJson(v) == IF v = JsonNull THEN None ELSE v

\* datetime.utcnow().isoformat() at the initialisation and at a later save
StartTime == "t0"
SaveTime == "t1"

\* the TournamentState object of the engine state st
StateObject(st, started, updated) ==
    [contestants |-> st.contestants, matches |-> st.matches,
     current_round |-> st.current_round, total_rounds |-> st.total_rounds,
     started_at |-> started, last_updated |-> updated,
     winner_id |-> st.winner_id]

\* json.dump(asdict(self)): the document written for the object obj
Encode(obj) ==
    [contestants |-> obj.contestants,
     matches |-> [i \in 1..Len(obj.matches) |->
                    [obj.matches[i] EXCEPT !.winner = ToJson(@)]],
     current_round |-> obj.current_round, total_rounds |-> obj.total_rounds,
     started_at |-> obj.started_at, last_updated |-> obj.last_updated,
     winner_id |-> ToJson(obj.winner_id)]

\* cls(**json.load(f)), Contestant(**data) and Match(**mdata) accept the
\* document: a keyword that is not a field raises TypeError
Loadable(doc) ==
    /\ DOMAIN doc \subseteq StateFields
    /\ \A c \in DOMAIN doc.contestants :
           DOMAIN doc.contestants[c] \subseteq ContestantFields
    /\ \A i \in 1..Len(doc.matches) : DOMAIN doc.matches[i] \subseteq MatchFields

\* the object TournamentState.load builds from a document it accepts
Decode(doc) ==
    [contestants |-> doc.contestants,
     matches |-> [i \in 1..Len(doc.matches) |->
                    [doc.matches[i] EXCEPT !.winner = FromJson(@)]],
     current_round |-> doc.current_round, total_rounds |-> doc.total_rounds,
     started_at |-> doc.started_at, last_updated |-> doc.last_updated,
     winner_id |-> FromJson(doc.winner_id)]

\* TournamentState.save: self.last_updated = datetime.utcnow().isoformat()
Touch(obj) == [obj EXCEPT !.last_updated = SaveTime]

\* engine states a state file is written for: a fresh bracket, the same
\* with its first match judged, and a finished tournament of one contestant
SampleStates ==
    LET fresh == UNION {{InitializeTournament(DefaultState,
                                [c \in 1..n |-> NewContestant(c)], ids) :
                            ids \in Perms(1..n)} : n \in 1..MaxN}
        judged == {[st EXCEPT !.matches[1] = JudgedMatch(@, ReplyA)] :
                      st \in {f \in fresh : f.matches # <<>>}}
        finished == {[st EXCEPT !.winner_id = 1] :
                        st \in {f \in fresh : DOMAIN f.contestants = {1}}}
    IN fresh \cup judged \cup finished

\* the documents this version of the program writes
OwnDocuments == {Encode(StateObject(st, StartTime, StartTime)) : st \in SampleStates}

\* documents of another version: a further top-level field, or a further
\* field in every contestant
ForeignDocuments ==
    {doc @@ ("schema_version" :> 2) : doc \in OwnDocuments}
    \cup {[doc EXCEPT !.contestants =
               [c \in DOMAIN doc.contestants |-> doc.contestants[c] @@ ("rating" :> 0)]] :
            doc \in OwnDocuments}

\* a process is about to be started on an existing state file
PersistInit ==
    /\ images = <<>>
    /\ contestants = NoContestants
    /\ matches = <<>>
    /\ current_round = DefaultState.current_round
    /\ total_rounds = DefaultState.total_rounds
    /\ winner_id = DefaultState.winner_id
    /\ disk = NoFile
    /\ batch_size = 1
    /\ batch = <<>>
    /\ bi = 1
    /\ response = NoReply
    /\ pc = "off"
    /\ document \in OwnDocuments \cup ForeignDocuments
    /\ loaded = NoDocument

\* Tournament(images_dir, state_path): TournamentState.load and _load_state
\* accept the document
LoadDocument ==
    /\ pc \in {"off", "saved"}
    /\ Loadable(document)
    /\ loaded' = Decode(document)
    /\ pc' = "constructed"
    /\ UNCHANGED <<engine, response, document>>

\* Tournament(images_dir, state_path): TypeError on a keyword that is not
\* a field
LoadRejects ==
    /\ pc \in {"off", "saved"}
    /\ ~Loadable(document)
    /\ pc' = "loadfailed"
    /\ UNCHANGED <<engine, side>>

\* _save_state: TournamentState.save writes the object, and the process ends
SaveDocument ==
    /\ pc = "constructed"
    /\ loaded' = Touch(loaded)
    /\ document' = Encode(Touch(loaded))
    /\ pc' = "saved"
    /\ UNCHANGED <<engine, response>>

PersistNext ==
    \/ LoadDocument
    \/ LoadRejects
    \/ SaveDocument

PersistSpec == PersistInit /\ [][PersistNext]_vars

(* ======================= properties ==================================== *)
\* a Tournament object exists and its process is alive
Live == pc \in {"constructed", "loop", "batch", "done"}

\* the state file holds a complete document
Readable == disk.status = "ok"

\* the contestants with eliminated = false
Survivors(cs) == {c \in DOMAIN cs : cs[c].eliminated = FALSE}

\* the matches of round r that are not completed, as a set of indexes
Incomplete(ms, r) == {i \in 1..Len(ms) : ms[i].round_num = r /\ ms[i].completed = FALSE}

\* C1: once winner_id is set, it names one of the original contestants,
\* that contestant is not eliminated and every other original contestant is.
C1_SoleSurvivor ==
    winner_id # None =>
        /\ DOMAIN contestants = DiscoverImages(images)
        /\ winner_id \in DOMAIN contestants
        /\ contestants[winner_id].eliminated = FALSE
        /\ \A c \in DOMAIN contestants \ {winner_id} :
               contestants[c].eliminated = TRUE

\* a tournament of at least three contestants has finished
C1_Witness ==
    /\ pc = "done"
    /\ winner_id # None
    /\ Cardinality(DOMAIN contestants) >= 3

\* the judged matches of a dead process that the state file does not hold
LostVerdicts ==
    {i \in 1..Len(matches) :
        /\ matches[i].completed
        /\ ~(/\ Readable
             /\ i <= Len(disk.data.matches)
             /\ disk.data.matches[i].completed)}

\* C2: whenever the process has been terminated, the state file can be
\* loaded, and at most one judged match is missing from it.
C2_CrashResume ==
    pc = "crashed" =>
        /\ disk.status # "torn"
        /\ Cardinality(LostVerdicts) <= 1

\* C3: a Tournament constructed from a state file holds exactly the stored
\* contestants, matches and round, and the first batch of the run is made of
\* the first incomplete matches of the current round, in list order.
C3_ResumeContinuesRound ==
    /\ pc = "constructed" =>
          /\ Readable
          /\ matches = disk.data.matches
          /\ contestants = disk.data.contestants
          /\ current_round = disk.data.current_round
          /\ winner_id = disk.data.winner_id
    /\ (pc = "batch" /\ bi = 1) =>
          /\ Range(batch) \subseteq Incomplete(matches, current_round)
          /\ \A i, j \in 1..Len(batch) : i < j => batch[i] < batch[j]
          /\ \A k \in Incomplete(matches, current_round) \ Range(batch) :
                 \A i \in 1..Len(batch) : batch[i] < k
          /\ Len(batch) = Min(batch_size, Cardinality(Incomplete(matches, current_round)))

\* a Tournament was constructed from a state whose current round has both
\* a completed and an incomplete match
C3_Witness ==
    /\ pc = "constructed"
    /\ Incomplete(matches, current_round) # {}
    /\ \E i \in 1..Len(matches) :
          matches[i].round_num = current_round /\ matches[i].completed

\* the step of a live process in which the oracle call for batch[bi] fails
FailedAttempt ==
    /\ pc = "batch"
    /\ pc' # "crashed"
    /\ matches'[batch[bi]].completed = FALSE

C5_PersistedBeforeNextCall ==
    Live =>
        /\ Readable
        /\ disk.data.contestants = contestants
        /\ disk.data.matches = matches
        /\ disk.data.current_round = current_round
        /\ disk.data.winner_id = winner_id

\* an oracle call of the second round is about to be made, after matches
\* were completed and the first round was advanced
C5_Witness ==
    /\ pc = "batch"
    /\ bi <= Len(batch)
    /\ current_round = 2
    /\ \E i \in 1..Len(matches) : matches[i].round_num = 1 /\ matches[i].completed

\* the contestant of a completed match that is not its winner
LoserOf(m) == CHOOSE c \in {m.contestant_a, m.contestant_b} : c # m.winner

\* in state st, the loser of every completed match of an advanced round is
\* eliminated and is in no match of a later round
LosersOut(st) ==
    \A i \in 1..Len(st.matches) :
        st.matches[i].completed =>
            /\ (st.matches[i].round_num < st.current_round \/ st.winner_id # None)
                  => st.contestants[LoserOf(st.matches[i])].eliminated = TRUE
            /\ \A j \in 1..Len(st.matches) :
                  st.matches[j].round_num > st.matches[i].round_num =>
                      LoserOf(st.matches[i]) \notin
                          {st.matches[j].contestant_a, st.matches[j].contestant_b}

\* eliminated stays true from cs to ds
StaysEliminated(cs, ds) ==
    \A c \in DOMAIN cs :
        cs[c].eliminated = TRUE => (c \in DOMAIN ds /\ ds[c].eliminated = TRUE)

\* C6: the loser of a completed match is eliminated once its round is
\* advanced, in memory and in the state file, and is in no match of a later
\* round; eliminated never goes from true to false in a process, in the
\* state file, or from the state file to the memory of a resumed process.
C6_LoserEliminatedForever ==
    /\ [](LosersOut(State(contestants, matches, current_round, total_rounds, winner_id)))
    /\ [](Readable => LosersOut(disk.data))
    /\ [][pc \notin Restartable => StaysEliminated(contestants, contestants')]_vars
    /\ [][(Readable /\ Readable') =>
            StaysEliminated(disk.data.contestants, disk'.data.contestants)]_vars
    /\ [][(Readable /\ pc' = "constructed") =>
            StaysEliminated(disk.data.contestants, contestants')]_vars

\* a match of the second round is about to be judged, with a contestant
\* eliminated in memory and in the state file
C6_Witness ==
    /\ pc = "batch"
    /\ current_round = 2
    /\ Readable
    /\ \E c \in DOMAIN disk.data.contestants : disk.data.contestants[c].eliminated
    /\ \E c \in DOMAIN contestants : contestants[c].eliminated

\* C7: winner_id goes from None to an id only in a state with exactly one
\* contestant not eliminated, that contestant; once it is set in a live
\* process or in the state file, no oracle call is made and contestants,
\* matches, current_round, winner_id and the state file never change, also
\* when run() is entered again.
C7_WinnerSetOnce ==
    /\ [][(winner_id = None /\ winner_id' # None) =>
            Survivors(contestants') = {winner_id'}]_vars
    /\ [][(winner_id # None /\ Live) =>
            /\ mem' = mem
            /\ disk' = disk
            /\ pc' # "batch"]_vars
    /\ [][(Readable /\ disk.data.winner_id # None) => disk' = disk]_vars
    /\ [](pc = "batch" => winner_id = None)

\* run() was entered again on a finished tournament of several contestants
C7_Witness ==
    /\ pc = "loop"
    /\ winner_id # None
    /\ Cardinality(DOMAIN contestants) >= 2
    /\ Readable
    /\ disk.data.winner_id = winner_id

\* every match of the list ms is completed exactly when it has a winner,
\* and its winner is one of its two contestants
VerdictsSound(ms) ==
    \A i \in 1..Len(ms) :
        /\ ms[i].completed = TRUE <=> ms[i].winner # None
        /\ ms[i].winner # None => ms[i].winner \in {ms[i].contestant_a, ms[i].contestant_b}

\* C8: in memory and in the state file, a match is completed if and only
\* if its winner is set, and a set winner is contestant_a or contestant_b,
\* whatever text the oracle replied.
C8_CompletedIffWinner ==
    /\ VerdictsSound(matches)
    /\ Readable => VerdictsSound(disk.data.matches)

\* the state file holds a match won by contestant_a and one won by
\* contestant_b
C8_Witness ==
    /\ Readable
    /\ \E i, j \in 1..Len(disk.data.matches) :
          /\ disk.data.matches[i].completed
          /\ disk.data.matches[i].winner = disk.data.matches[i].contestant_a
          /\ disk.data.matches[j].completed
          /\ disk.data.matches[j].winner = disk.data.matches[j].contestant_b

\* m1 and m2 have the same id, round and contestants
SameMatch(m1, m2) ==
    /\ m1.id = m2.id
    /\ m1.round_num = m2.round_num
    /\ m1.contestant_a = m2.contestant_a
    /\ m1.contestant_b = m2.contestant_b

\* the positions of the match list holding a match created by this step
Created ==
    {i \in 1..Len(matches') : i > Len(matches) \/ ~SameMatch(matches[i], matches'[i])}

\* C9: every match has two different contestants, and at the step that
\* creates it both are contestants that are not eliminated.
C9_MatchesPairLiveContestants ==
    /\ [](\A i \in 1..Len(matches) :
             /\ matches[i].contestant_a # matches[i].contestant_b
             /\ {matches[i].contestant_a, matches[i].contestant_b} \subseteq DOMAIN contestants)
    /\ [][\A i \in Created :
             /\ matches'[i].contestant_a # matches'[i].contestant_b
             /\ {matches'[i].contestant_a, matches'[i].contestant_b}
                    \subseteq Survivors(contestants')]_vars

\* the matches of the second round exist and one of the first round has
\* an eliminated loser
C9_Witness ==
    /\ current_round = 2
    /\ \E i \in 1..Len(matches) : matches[i].round_num = 2
    /\ \E i \in 1..Len(matches) :
          matches[i].completed /\ contestants[LoserOf(matches[i])].eliminated

\* the list ns keeps every match of ms at its position
Extends(ms, ns) ==
    /\ Len(ns) >= Len(ms)
    /\ \A i \in 1..Len(ms) : SameMatch(ms[i], ns[i])

\* C10: in a process the match list keeps every match, with its id, round
\* and contestants, and gets longer only when a round is built: by the
\* construction of a fresh tournament or by advance_round with no pending
\* match, all new matches being of the new round; the state file keeps
\* every match, and a match completed in it stays completed with its winner.
C10_MatchListOnlyGrows ==
    /\ [][pc \notin Restartable => Extends(matches, matches')]_vars
    /\ [][Len(matches') > Len(matches) =>
            \/ pc = "discovered" /\ disk.status = "absent"
            \/ /\ pc = "loop"
               /\ Incomplete(matches, current_round) = {}
               /\ current_round' = current_round + 1
               /\ \A i \in (Len(matches) + 1)..Len(matches') :
                      matches'[i].round_num = current_round']_vars
    /\ [][(Readable /\ Readable') =>
            /\ Extends(disk.data.matches, disk'.data.matches)
            /\ \A i \in 1..Len(disk.data.matches) :
                   disk.data.matches[i].completed =>
                       /\ disk'.data.matches[i].completed
                       /\ disk'.data.matches[i].winner = disk.data.matches[i].winner]_vars

\* the state file holds completed matches of the first round followed by
\* a completed match of the second round
C10_Witness ==
    /\ Readable
    /\ Len(disk.data.matches) >= 3
    /\ disk.data.matches[1].round_num = 1
    /\ disk.data.matches[1].completed
    /\ \E i \in 1..Len(disk.data.matches) :
          disk.data.matches[i].round_num = 2 /\ disk.data.matches[i].completed

\* the number of contestants the tournament was initialised with
InitialCount == Cardinality(DiscoverImages(images))

\* the least k with 2^k >= n
CeilLog2(n) == CHOOSE k \in 0..n : Pow2(k) >= n /\ \A j \in 0..(k - 1) : Pow2(j) < n

\* C11: once a tournament of N >= 1 contestants is initialised, total_rounds
\* is ceil(log2(N)) in every live process, fresh or resumed, and in every
\* readable state file, whatever matches are completed and rounds advanced;
\* the computation gives 0 for N = 1 and 3 for N = 5 and N = 8.
C11_TotalRoundsFixed ==
    /\ Live => total_rounds = CeilLog2(InitialCount)
    /\ Readable => disk.data.total_rounds = CeilLog2(InitialCount)
    /\ \A n \in 1..(2 * MaxN) : TotalRounds(n) = CeilLog2(n)
    /\ TotalRounds(1) = 0 /\ TotalRounds(5) = 3 /\ TotalRounds(8) = 3

\* a tournament of three contestants was resumed in its second round
C11_Witness ==
    /\ pc = "constructed"
    /\ InitialCount = 3
    /\ current_round = 2
    /\ total_rounds = 2

\* the round-1 matches of the list ms in which contestant c appears
RoundOneMatchesOf(ms, c) ==
    {i \in 1..Len(ms) :
        ms[i].round_num = 1 /\ c \in {ms[i].contestant_a, ms[i].contestant_b}}

\* the bracket of round 1: 2^tr - N contestants have one win and no match,
\* every other contestant has no win and one match, and there are
\* (N - byes) / 2 matches
RoundOneBracket(cs, ms, tr) ==
    LET n == Cardinality(DOMAIN cs)
        byes == Pow2(tr) - n
        free == {c \in DOMAIN cs : cs[c].wins = 1}
    IN /\ Cardinality(free) = byes
       /\ \A c \in free : RoundOneMatchesOf(ms, c) = {}
       /\ \A c \in DOMAIN cs \ free :
              cs[c].wins = 0 /\ Cardinality(RoundOneMatchesOf(ms, c)) = 1
       /\ 2 * Len(ms) = n - byes

\* _initialize_tournament applied to the ids 1..n in this order
BracketOf(n) ==
    InitializeTournament(DefaultState, [c \in 1..n |-> NewContestant(c)],
                         [i \in 1..n |-> i])

\* the initialisation of five and of eight contestants: 3 byes, given to
\* the first three ids, and 1 match; 0 byes and 4 matches
BracketExamples ==
    /\ RoundOneBracket(BracketOf(5).contestants, BracketOf(5).matches,
                       BracketOf(5).total_rounds)
    /\ {c \in 1..5 : BracketOf(5).contestants[c].wins = 1} = {1, 2, 3}
    /\ Len(BracketOf(5).matches) = 1
    /\ RoundOneBracket(BracketOf(8).contestants, BracketOf(8).matches,
                       BracketOf(8).total_rounds)
    /\ {c \in 1..8 : BracketOf(8).contestants[c].wins = 1} = {}
    /\ Len(BracketOf(8).matches) = 4

\* a live process is in round 1 of a tournament without winner: contestants
\* and matches are those the initialisation built, but for verdicts
InRoundOne == Live /\ current_round = 1 /\ winner_id = None

\* C12 as stated: for every N >= 1, the initialisation leaves the bracket
\* of round 1.
C12_ByesAndPairs ==
    /\ InRoundOne => RoundOneBracket(contestants, matches, total_rounds)
    /\ BracketExamples

\* C12, amended: for every N >= 2 the initialisation leaves the bracket of
\* round 1; for N = 1 there is no bye and no match, and the sole contestant
\* has no win.
C12_ByesAndPairsFromTwo ==
    /\ (InRoundOne /\ InitialCount >= 2) =>
           RoundOneBracket(contestants, matches, total_rounds)
    /\ (InRoundOne /\ InitialCount = 1) =>
           /\ matches = <<>>
           /\ \A c \in DOMAIN contestants : contestants[c].wins = 0
    /\ BracketExamples

\* a tournament of three contestants was initialised: one bye, one match
C12_Witness ==
    /\ pc = "constructed"
    /\ current_round = 1
    /\ InitialCount = 3
    /\ Len(matches) = 1
    /\ Cardinality({c \in DOMAIN contestants : contestants[c].wins = 1}) = 1

\* in state st with a winner there are N - 1 matches, all completed
AllPlayed(st) ==
    st.winner_id # None =>
        /\ Len(st.matches) = InitialCount - 1
        /\ \A i \in 1..Len(st.matches) : st.matches[i].completed = TRUE

\* C13: when winner_id is set, in memory or in the state file, there are
\* exactly N - 1 matches and all are completed; with N = 1 no match is
\* ever created, no oracle call is made, and the winner is the sole
\* contestant.
C13_MatchCount ==
    /\ AllPlayed(State(contestants, matches, current_round, total_rounds, winner_id))
    /\ Readable => AllPlayed(disk.data)
    /\ InitialCount = 1 =>
           /\ matches = <<>>
           /\ pc # "batch"
           /\ winner_id # None => winner_id \in DiscoverImages(images)

\* a tournament of three contestants, one of which had a bye, has finished
C13_Witness ==
    /\ pc = "done"
    /\ winner_id # None
    /\ InitialCount = 3
    /\ Len(matches) = 2

\* the first line of the reply text without its surrounding whitespace, in
\* upper case
FirstLineUpper(text) == Upper(FirstLine(Strip(text)))

\* the letter occurs on the first line of the reply
OnFirstLine(text, letter) == HasChar(FirstLineUpper(text), letter)

\* the match that was judged
Judged == matches[batch[bi]]

\* C14: when the upper-cased first line of the reply holds both the letter
\* A and the letter B, the winner of the match is contestant_b.
C14_BothLettersGiveB ==
    (pc = "judged" /\ OnFirstLine(response, "A") /\ OnFirstLine(response, "B")) =>
        /\ Judged.completed = TRUE
        /\ Judged.winner = Judged.contestant_b

\* a reply that starts with the letter A and holds both letters on its
\* first line was parsed
C14_Witness ==
    /\ pc = "judged"
    /\ OnFirstLine(response, "A") /\ OnFirstLine(response, "B")
    /\ response[1] = "A"
    /\ Judged.winner = Judged.contestant_b

\* the keyword scan: the text without its surrounding whitespace starts
\* with 'a', or 'image a' occurs in its first 50 characters, in any case
ScanPicksA(text) ==
    LET t == Lower(Strip(text))
    IN \/ (Len(t) >= 1 /\ t[1] = "a")
       \/ \E i \in 1..44 :
             i + 6 <= Len(t) /\ SubSeq(t, i, i + 6) = <<"i","m","a","g","e"," ","a">>

\* the contestant the keyword scan decides for
ScanChoice(text, m) == IF ScanPicksA(text) THEN m.contestant_a ELSE m.contestant_b

\* C15 as stated: one letter alone on the first line names the winner;
\* with neither or both, the keyword scan decides.
C15_TwoStepRule ==
    pc = "judged" =>
        LET a == OnFirstLine(response, "A")
            b == OnFirstLine(response, "B")
        IN /\ (a /\ ~b) => Judged.winner = Judged.contestant_a
           /\ (b /\ ~a) => Judged.winner = Judged.contestant_b
           /\ (a <=> b) => Judged.winner = ScanChoice(response, Judged)

\* C15, amended: the letter A without the letter B on the first line gives
\* contestant_a; the letter B on the first line, with or without the letter
\* A, gives contestant_b; with neither letter, the keyword scan decides.
C15_TwoStepRuleBFirst ==
    pc = "judged" =>
        LET a == OnFirstLine(response, "A")
            b == OnFirstLine(response, "B")
        IN /\ (a /\ ~b) => Judged.winner = Judged.contestant_a
           /\ b => Judged.winner = Judged.contestant_b
           /\ (~a /\ ~b) => Judged.winner = ScanChoice(response, Judged)

\* a reply with neither letter on its first line was decided for
\* contestant_a by the keyword scan
C15_Witness ==
    /\ pc = "judged"
    /\ ~OnFirstLine(response, "A") /\ ~OnFirstLine(response, "B")
    /\ ScanPicksA(response)
    /\ Judged.winner = Judged.contestant_a

\* C16: the registration of a fresh tournament yields one contestant for
\* each distinct content among the files, named after that content whatever
\* the names and the order of the files, and every contestant registered has
\* eliminated = false and wins = losses = 0.
C16_OneContestantPerContent ==
    pc = "discovered" =>
        /\ DOMAIN contestants = {images[i].content : i \in 1..Len(images)}
        /\ \A i, j \in 1..Len(images) :
               images[i].content = images[j].content =>
                   \E c \in DOMAIN contestants :
                       contestants[c].id = images[i].content /\ c = images[j].content
        /\ \A c \in DOMAIN contestants :
               /\ contestants[c].id = c
               /\ contestants[c].eliminated = FALSE
               /\ contestants[c].wins = 0
               /\ contestants[c].losses = 0

\* three files, two of them of the same content, were registered as two
\* contestants
C16_Witness ==
    /\ pc = "discovered"
    /\ Len(images) = 3
    /\ Cardinality(DOMAIN contestants) = 2

\* C17: when the registration yields no contestant, the construction ends
\* with the error: no Tournament is constructed, no match is created, and
\* the state file is not written.
C17_EmptyPoolFails ==
    /\ [][(pc = "discovered" /\ DOMAIN contestants = {}) =>
            /\ pc' \in {"nopool", "crashed"}
            /\ matches' = <<>>
            /\ disk' = disk]_vars
    /\ [](Len(images) = 0 =>
            /\ pc \in {"off", "discovered", "nopool", "crashed"}
            /\ matches = <<>>
            /\ disk.status = "absent")
    /\ [][pc = "nopool" => pc' = "nopool"]_vars

\* the construction over an empty images directory has failed
C17_Witness ==
    /\ pc = "nopool"
    /\ Len(images) = 0
    /\ disk.status = "absent"

\* the state file holds the memory of the process
Persisted(cs, ms, r, tr, w, file) ==
    /\ file.status = "ok"
    /\ file.data.contestants = cs
    /\ file.data.matches = ms
    /\ file.data.current_round = r
    /\ file.data.total_rounds = tr
    /\ file.data.winner_id = w

\* C18: a step of the engine that changes the memory or the state file and
\* does not leave the memory in the file, as happens when the write fails,
\* ends the process: it is not at the next match, nor at the next pass; a
\* process that has ended judges no match and advances no round, all that
\* can follow is the construction of a new Tournament.
C18_WriteFailureAborts ==
    /\ [][(/\ pc \in {"discovered", "loop", "batch"}
           /\ (mem' # mem \/ disk' # disk)
           /\ ~Persisted(contestants', matches', current_round', total_rounds',
                         winner_id', disk'))
             => pc' \in {"aborted", "crashed"}]_vars
    /\ [][(pc \in {"aborted", "crashed"}) =>
            pc' \in {"loadfailed", "constructed", "discovered"}]_vars

\* the write after a judged match has raised: the verdict is in memory and
\* not in the state file, and the process has ended
C18_Witness ==
    /\ pc = "aborted"
    /\ LostVerdicts # {}

\* the step completes the match batch[bi]
Completes ==
    /\ pc = "batch"
    /\ bi <= Len(batch)
    /\ matches[batch[bi]].completed = FALSE
    /\ matches'[batch[bi]].completed = TRUE

\* C20: the step that completes a match increments the wins of its winner,
\* and the state file written by that step holds the incremented wins.
C20_WinsCountedAtMatch ==
    [][Completes =>
         LET w == matches'[batch[bi]].winner
         IN /\ contestants'[w].wins = contestants[w].wins + 1
            /\ pc' \in {"loop", "batch"} =>
                   /\ Readable'
                   /\ disk'.data.contestants[w].wins = contestants[w].wins + 1]_vars

\* the fields of a document that are not fields of TournamentState
UnknownFields(doc) == DOMAIN doc \ StateFields

\* the contestants of a document with a field that is not one of Contestant
UnknownInContestants(doc) ==
    {c \in DOMAIN doc.contestants : DOMAIN doc.contestants[c] \ ContestantFields # {}}

\* the object was saved and the object loaded back has the same fields
SameAfterReload ==
    (pc = "saved" /\ pc' = "constructed") =>
        /\ loaded'.contestants = loaded.contestants
        /\ loaded'.matches = loaded.matches
        /\ loaded'.current_round = loaded.current_round
        /\ loaded'.total_rounds = loaded.total_rounds
        /\ loaded'.started_at = loaded.started_at
        /\ loaded'.winner_id = loaded.winner_id

\* C19: a saved state that is loaded back has the same contestants,
\* matches, current_round, total_rounds, started_at and winner_id; a state
\* file with fields unknown to the program is loaded, and the file written
\* by the next save still has these fields.
C19_LosslessRoundTrip ==
    /\ [][SameAfterReload]_vars
    /\ [](pc # "loadfailed")
    /\ [][pc' = "saved" =>
            /\ UnknownFields(document) \subseteq UnknownFields(document')
            /\ UnknownInContestants(document) \subseteq UnknownInContestants(document')]_vars

\* the round r of state st has been advanced: its results are applied
RoundAdvanced(st, r) ==
    r < st.current_round \/ (r = st.current_round /\ st.winner_id # None)

\* the completed matches of advanced rounds of st that contestant c won
WonAdvanced(st, c) ==
    {i \in 1..Len(st.matches) :
        /\ st.matches[i].completed
        /\ RoundAdvanced(st, st.matches[i].round_num)
        /\ st.matches[i].winner = c}

\* the completed matches of advanced rounds of st that contestant c lost
LostAdvanced(st, c) ==
    {i \in 1..Len(st.matches) :
        /\ st.matches[i].completed
        /\ RoundAdvanced(st, st.matches[i].round_num)
        /\ LoserOf(st.matches[i]) = c}

\* the rounds built so far in which contestant c, of a pool of several and
\* not beaten in an earlier round, was left without a match
ByeRounds(st, c) ==
    {r \in 1..st.current_round :
        /\ Cardinality(DOMAIN st.contestants) >= 2
        /\ \A i \in 1..Len(st.matches) :
               /\ st.matches[i].round_num = r =>
                      c \notin {st.matches[i].contestant_a, st.matches[i].contestant_b}
               /\ (st.matches[i].round_num < r /\ st.matches[i].completed) =>
                      LoserOf(st.matches[i]) # c}

\* in state st every contestant has one win for each match it won in an
\* advanced round and for each bye, one loss for each match it lost in an
\* advanced round, and is eliminated exactly when it lost such a match
ResultsCountedOnce(st) ==
    \A c \in DOMAIN st.contestants :
        /\ st.contestants[c].wins =
               Cardinality(WonAdvanced(st, c)) + Cardinality(ByeRounds(st, c))
        /\ st.contestants[c].losses = Cardinality(LostAdvanced(st, c))
        /\ st.contestants[c].eliminated = TRUE <=> LostAdvanced(st, c) # {}

\* the step in which advance_round runs in a live process
Advances ==
    /\ pc = "loop"
    /\ current_round' = current_round + 1 \/ (winner_id = None /\ winner_id' # None)

\* the matches of round r in the list ms that contestant c won, lost
WonIn(ms, r, c) ==
    {i \in 1..Len(ms) : ms[i].round_num = r /\ ms[i].completed /\ ms[i].winner = c}
LostIn(ms, r, c) ==
    {i \in 1..Len(ms) : ms[i].round_num = r /\ ms[i].completed /\ LoserOf(ms[i]) = c}

\* C21: the step that advances round r eliminates every loser of a
\* completed round-r match and adds exactly 1 to its losses, and adds
\* exactly 1 to the wins of the winner of every such match (a contestant
\* left unpaired in the new round getting its bye on top); no other step of
\* a process changes wins, losses or eliminated; so in every live process,
\* fresh or resumed, and in every readable state file, each contestant's
\* wins and losses count each match of an advanced round exactly once.
C21_ResultsAppliedOnce ==
    /\ [][Advances =>
            \A c \in DOMAIN contestants :
                /\ contestants'[c].losses =
                       contestants[c].losses + Cardinality(LostIn(matches, current_round, c))
                /\ LostIn(matches, current_round, c) # {} =>
                       /\ contestants'[c].eliminated = TRUE
                       /\ contestants'[c].losses = contestants[c].losses + 1
                /\ contestants'[c].wins =
                       contestants[c].wins + Cardinality(WonIn(matches, current_round, c))
                         + (IF /\ winner_id' = None
                               /\ c \in Survivors(contestants')
                               /\ \A i \in 1..Len(matches') :
                                      matches'[i].round_num = current_round' =>
                                          c \notin {matches'[i].contestant_a,
                                                    matches'[i].contestant_b}
                            THEN 1 ELSE 0)
                /\ Cardinality(WonIn(matches, current_round, c)) <= 1]_vars
    /\ [][(pc \in {"constructed", "loop", "batch", "done"} /\ ~Advances) =>
            contestants' = contestants]_vars
    /\ [](Live => ResultsCountedOnce(State(contestants, matches, current_round,
                                           total_rounds, winner_id)))
    /\ [](Readable => ResultsCountedOnce(disk.data))

\* a process resumed in the second round, after a process that advanced
\* the first round was killed, holds a contestant with one win for its
\* match of round 1 and a contestant with one loss
C21_Witness ==
    /\ pc = "constructed"
    /\ current_round = 2
    /\ \E i \in 1..Len(matches) :
          /\ matches[i].round_num = 1
          /\ matches[i].completed
          /\ contestants[matches[i].winner].wins = 1
          /\ contestants[LoserOf(matches[i])].losses = 1
          /\ contestants[LoserOf(matches[i])].eliminated

\* the step that ends the iteration of `for match in batch` for batch[bi]
\* in a process that goes on
Attempted ==
    /\ pc = "batch"
    /\ bi <= Len(batch)
    /\ pc' \in {"loop", "batch"}

\* the incomplete matches of the current round after the step, before and
\* after the position k of the list
StillPendingUpTo(k) == {j \in Incomplete(matches', current_round') : j <= k}
StillPendingAfter(k) == {j \in Incomplete(matches', current_round') : j > k}

\* C22: the matches are attempted in the order of an unbounded batch, that
\* is, after the attempt of a match the next match attempted is the next
\* incomplete match of the round down the list, and the list is taken up
\* from its start only when no incomplete match follows: inside a batch the
\* iterator moves to that match, and a pass ends with incomplete matches
\* after the last one attempted only if no incomplete match is left before
\* them, so that the next pass starts with them.
C22_BatchingKeepsOrder ==
    /\ [][(Attempted /\ pc' = "batch") =>
            /\ batch'[bi'] \in StillPendingAfter(batch[bi])
            /\ \A j \in StillPendingAfter(batch[bi]) : batch'[bi'] <= j]_vars
    /\ [][(Attempted /\ pc' = "loop" /\ StillPendingAfter(batch[bi]) # {}) =>
            StillPendingUpTo(batch[bi]) = {}]_vars

\* the positions of the match list whose match the step changes
Touched == {i \in 1..Len(matches) : i <= Len(matches') /\ matches'[i] # matches[i]}

\* in state st no match is of a round after the current one, and every
\* match of a round before the current one is completed
RoundsInOrder(st) ==
    \A i \in 1..Len(st.matches) :
        /\ st.matches[i].round_num <= st.current_round
        /\ st.matches[i].round_num < st.current_round => st.matches[i].completed = TRUE

\* C23: the batch of a pass lists incomplete matches of the current round
\* in list order and the oracle is called for one of them at a time, the
\* next one after the call for the previous one has ended; a step of run()
\* changes at most one match, the one the oracle was called for; and no
\* match of a later round exists, in memory or in the state file, while a
\* match of the current round is incomplete: matches are created by
\* advance_round only, for the next round, when every match is completed.
C23_OneAtATimeInOrder ==
    /\ [](pc = "batch" =>
            /\ bi \in 1..Len(batch)
            /\ \A i, j \in 1..Len(batch) : i < j => batch[i] < batch[j]
            /\ \A i \in 1..Len(batch) : matches[batch[i]].round_num = current_round
            /\ \A i \in bi..Len(batch) : matches[batch[i]].completed = FALSE)
    /\ [][(Attempted /\ pc' = "batch") => (batch' = batch /\ bi' = bi + 1)]_vars
    /\ [][(pc \in {"loop", "batch"}) =>
            /\ Cardinality(Touched) <= 1
            /\ Touched # {} => (pc = "batch" /\ Touched = {batch[bi]})]_vars
    /\ [](Live => RoundsInOrder(State(contestants, matches, current_round,
                                      total_rounds, winner_id)))
    /\ [](Readable => RoundsInOrder(disk.data))
    /\ [][(pc \in {"loop", "batch"} /\ Len(matches') > Len(matches)) =>
            /\ \A i \in 1..Len(matches) : matches[i].completed = TRUE
            /\ \A i \in (Len(matches) + 1)..Len(matches') :
                   matches'[i].round_num = current_round + 1]_vars

\* the second match of a batch is about to be judged after the first one,
\* earlier in the list, was completed
C23_Witness ==
    /\ pc = "batch"
    /\ bi = 2
    /\ batch[1] < batch[2]
    /\ matches[batch[1]].completed
    /\ matches[batch[2]].completed = FALSE

\* the matches of round r in the list ms that contestant c is in
MatchesOf(ms, r, c) ==
    {i \in 1..Len(ms) :
        ms[i].round_num = r /\ c \in {ms[i].contestant_a, ms[i].contestant_b}}

\* the contestants of st that are not eliminated and are in no match of
\* the current round
Unpaired(st) ==
    {c \in Survivors(st.contestants) : MatchesOf(st.matches, st.current_round, c) = {}}

\* the current round of st is built from its L live contestants: L \div 2
\* matches, every live contestant in exactly one of them but for one when L
\* is odd, and no eliminated contestant in any
RoundBuilt(st) ==
    LET live == Survivors(st.contestants)
        new == {i \in 1..Len(st.matches) : st.matches[i].round_num = st.current_round}
    IN /\ Cardinality(live) >= 2
       /\ Cardinality(new) = Cardinality(live) \div 2
       /\ \A c \in live : Cardinality(MatchesOf(st.matches, st.current_round, c)) <= 1
       /\ Cardinality(Unpaired(st)) = Cardinality(live) % 2
       /\ \A c \in DOMAIN st.contestants \ live :
              MatchesOf(st.matches, st.current_round, c) = {}

\* a state in which advance_round finds L contestants alive: the
\* contestants 1..L+1, of which 1 has beaten L+1 in the only match of
\* round 1 and the others were given a bye
AfterOneMatch(L) ==
    State([c \in 1..(L + 1) |->
              IF c \in 2..L THEN [NewContestant(c) EXCEPT !.wins = 1]
              ELSE NewContestant(c)],
          <<[NewMatch(<<1, 0>>, 1, 1, L + 1) EXCEPT !.winner = 1, !.completed = TRUE]>>,
          1, TotalRounds(L + 1), None)

\* advance_round on AfterOneMatch(L), the shuffle giving the order ids
AdvancedFrom(L, ids) ==
    AdvanceRound(AfterOneMatch(L).contestants, AfterOneMatch(L).matches, 1,
                 AfterOneMatch(L).total_rounds, None, ids)

\* advance_round on 2 .. MaxN + 1 live contestants, for every outcome of the
\* shuffle: the round is built, and with L odd the last id of the shuffle
\* is the one without a match and has one win more, all others as many
\* wins as before
AdvanceExamples ==
    \A L \in 2..(MaxN + 1) : \A ids \in Perms(1..L) :
        LET st == AdvancedFrom(L, ids)
            before == ApplyResults(AfterOneMatch(L).contestants,
                                   AfterOneMatch(L).matches, 1, 1)
        IN /\ st.current_round = 2
           /\ RoundBuilt(st)
           /\ Unpaired(st) = IF L % 2 = 1 THEN {ids[L]} ELSE {}
           /\ \A c \in 1..(L + 1) :
                  st.contestants[c].wins =
                      before[c].wins + (IF c \in Unpaired(st) THEN 1 ELSE 0)

\* C24: the step in which advance_round builds the next round leaves, in
\* memory, the round built from the live contestants: floor(L/2) matches of
\* the new round, every live contestant in exactly one of them, no
\* eliminated contestant in any; and advance_round applied to an even or odd
\* number L >= 2 of live contestants builds the round with, for odd L, the
\* last id of the shuffle unpaired and its wins incremented by 1.
C24_NextRoundPairsLive ==
    /\ [][(pc = "loop" /\ current_round' = current_round + 1) =>
            /\ RoundBuilt(State(contestants', matches', current_round',
                                total_rounds', winner_id'))
            /\ \A i \in 1..Len(matches') :
                   matches'[i].round_num = current_round' <=> i > Len(matches)]_vars
    /\ [](AdvanceExamples)

\* advance_round built the second round, of one match, from the two
\* contestants left of four; applied to three live contestants it leaves
\* the last of the shuffle with a second win
C24_Witness ==
    /\ pc = "batch"
    /\ current_round = 2
    /\ Cardinality(DOMAIN contestants) = 4
    /\ Cardinality(Survivors(contestants)) = 2
    /\ Cardinality({i \in 1..Len(matches) : matches[i].round_num = 2}) = 1
    /\ AdvancedFrom(3, <<2, 3, 1>>).contestants[1].wins = 2

\* the process has been killed or ended by an exception
Interrupted == pc \in {"crashed", "aborted"}

\* the oracle lets matches succeed: if oracle calls are made again and
\* again, again and again one of them completes its match
OracleSucceeds == <>[](pc # "batch") \/ []<><<Completes>>_vars

\* C25: under the scheduling of FairSpec and with an oracle that lets
\* matches succeed, a tournament of N >= 1 contestants whose processes are
\* interrupted finitely many times gets its winner_id set.
C25_RunSetsWinner ==
    OracleSucceeds =>
        \/ []<>Interrupted
        \/ <>(winner_id # None \/ InitialCount = 0)

\* in state st every contestant has no loss or one, is eliminated exactly
\* when it has one, and every match of a round before the current one is
\* completed
OneLossOut(st) ==
    /\ \A c \in DOMAIN st.contestants :
           /\ st.contestants[c].losses \in {0, 1}
           /\ st.contestants[c].eliminated = TRUE <=> st.contestants[c].losses = 1
    /\ \A i \in 1..Len(st.matches) :
           st.matches[i].round_num < st.current_round => st.matches[i].completed = TRUE

\* C26: every document the state file holds, whatever completions,
\* failures, advancements, kills and restarts came before, and every state
\* a process is constructed from, has losses in {0, 1} for each contestant,
\* eliminated exactly with losses = 1, and all matches of earlier rounds
\* completed.
C26_PersistedInvariant ==
    /\ Readable => OneLossOut(disk.data)
    /\ pc = "constructed" =>
           OneLossOut(State(contestants, matches, current_round, total_rounds, winner_id))

\* after a restart the state file holds a second round with a completed
\* match: contestants with one loss, eliminated, and contestants with none
C26_Witness ==
    /\ Readable
    /\ disk.data.current_round = 2
    /\ \E i \in 1..Len(disk.data.matches) :
          disk.data.matches[i].round_num = 2 /\ disk.data.matches[i].completed
    /\ \E c \in DOMAIN disk.data.contestants :
          disk.data.contestants[c].losses = 1 /\ disk.data.contestants[c].eliminated
    /\ \E c \in DOMAIN disk.data.contestants :
          disk.data.contestants[c].losses = 0 /\ ~disk.data.contestants[c].eliminated
    /\ pc = "constructed"

\* the number of rounds of state st that have been advanced
AdvancedRounds(st) ==
    IF st.winner_id # None THEN st.current_round ELSE st.current_round - 1

\* in state st, with r of its 1..total_rounds rounds advanced, there are
\* 2^(total_rounds - r) contestants not eliminated, and no contestant was
\* left without a match in a round after the first
PowerOfTwoLeft(st) ==
    /\ AdvancedRounds(st) \in 1..st.total_rounds =>
           Cardinality(Survivors(st.contestants)) =
               Pow2(st.total_rounds - AdvancedRounds(st))
    /\ \A c \in DOMAIN st.contestants : ByeRounds(st, c) \subseteq {1}

\* C27: in every live process and every readable state file of a
\* tournament, once round r of the total_rounds rounds is advanced there
\* are 2^(total_rounds - r) contestants not eliminated; the step that
\* builds a round after the first leaves no live contestant unpaired and
\* gives no win but those of the matches of the round it advances.
C27_PowerOfTwoAfterRoundOne ==
    /\ [](Live => PowerOfTwoLeft(State(contestants, matches, current_round,
                                       total_rounds, winner_id)))
    /\ [](Readable => PowerOfTwoLeft(disk.data))
    /\ [][(pc = "loop" /\ current_round' = current_round + 1) =>
            /\ Unpaired(State(contestants', matches', current_round',
                              total_rounds', winner_id')) = {}
            /\ \A c \in DOMAIN contestants :
                   contestants'[c].wins =
                       contestants[c].wins
                         + Cardinality(WonIn(matches, current_round, c))]_vars

\* the first round of a tournament of three contestants, one of which had
\* a bye, is advanced: two of the four places of the bracket are left
C27_Witness ==
    /\ Live
    /\ InitialCount = 3
    /\ total_rounds = 2
    /\ current_round = 2
    /\ winner_id = None
    /\ Cardinality(Survivors(contestants)) = 2

\* in state st of a tournament of two or more contestants the current
\* round is one of the rounds 1..total_rounds, and a winner is set only in
\* the last round and has total_rounds wins
RoundInRange(st) ==
    Cardinality(DOMAIN st.contestants) >= 2 =>
        /\ 1 <= st.current_round
        /\ st.current_round <= st.total_rounds
        /\ st.winner_id # None =>
               /\ st.current_round = st.total_rounds
               /\ st.contestants[st.winner_id].wins = st.total_rounds

\* C28: in every live process and every readable state file of a
\* tournament of N >= 2 contestants, 1 <= current_round <= total_rounds,
\* and a set winner_id comes with current_round = total_rounds and
\* total_rounds wins of the winner; current_round never decreases in a
\* process, in the state file, or from the state file to a resumed process.
C28_RoundWithinBounds ==
    /\ [](Live => RoundInRange(State(contestants, matches, current_round,
                                     total_rounds, winner_id)))
    /\ [](Readable => RoundInRange(disk.data))
    /\ [][pc \notin Restartable => current_round' >= current_round]_vars
    /\ [][(Readable /\ Readable') =>
            disk'.data.current_round >= disk.data.current_round]_vars
    /\ [][(Readable /\ pc' = "constructed") =>
            current_round' >= disk.data.current_round]_vars

\* a tournament of three contestants is won in its second round by the
\* contestant that had the bye of the first
C28_Witness ==
    /\ pc = "done"
    /\ InitialCount = 3
    /\ winner_id # None
    /\ current_round = 2
    /\ RoundOneMatchesOf(matches, winner_id) = {}
    /\ contestants[winner_id].wins = 2

\* the match lists ms and ns differ at most at position k, and there in
\* nothing but winner and completed
OnlyVerdictAt(ms, ns, k) ==
    /\ Len(ns) = Len(ms)
    /\ \A i \in 1..Len(ms) : i # k => ns[i] = ms[i]
    /\ SameMatch(ms[k], ns[k])

\* C29: the step that judges a match changes, in memory, nothing but
\* winner and completed of that match: contestants, the other matches,
\* current_round, total_rounds and winner_id stay, and a state file written
\* by the step differs from the one before in the same way only; the step
\* of a failed oracle call changes neither the memory nor the state file.
C29_JudgingTouchesOneMatch ==
    /\ [][Completes =>
            /\ contestants' = contestants
            /\ current_round' = current_round
            /\ total_rounds' = total_rounds
            /\ winner_id' = winner_id
            /\ OnlyVerdictAt(matches, matches', batch[bi])
            /\ (Readable /\ Readable') =>
                   /\ disk'.data.contestants = disk.data.contestants
                   /\ disk'.data.current_round = disk.data.current_round
                   /\ disk'.data.total_rounds = disk.data.total_rounds
                   /\ disk'.data.winner_id = disk.data.winner_id
                   /\ OnlyVerdictAt(disk.data.matches, disk'.data.matches, batch[bi])]_vars
    /\ [][(pc = "batch" /\ matches'[batch[bi]].completed = FALSE /\ pc' # "crashed") =>
            /\ mem' = mem
            /\ disk' = disk]_vars

\* the second match of a round was judged and saved: the state file holds
\* both verdicts, and the contestants without a win or a loss
C29_Witness ==
    /\ pc = "loop"
    /\ current_round = 1
    /\ Len(matches) = 2
    /\ matches[1].completed /\ matches[2].completed
    /\ Readable
    /\ disk.data.matches = matches
    /\ \A c \in DOMAIN contestants :
          contestants[c].wins = 0 /\ contestants[c].losses = 0

\* in the match list ms no two matches have the same id, and no two
\* matches of the same round have a contestant in common
DistinctMatches(ms) ==
    \A i, j \in 1..Len(ms) :
        i # j =>
            /\ ms[i].id # ms[j].id
            /\ ms[i].round_num = ms[j].round_num =>
                   {ms[i].contestant_a, ms[i].contestant_b}
                       \cap {ms[j].contestant_a, ms[j].contestant_b} = {}

\* C30: in every state, in memory and in a readable state file, the ids of
\* the matches are pairwise distinct and no contestant is in two matches of
\* the same round.
C30_DistinctIdsOneMatchPerRound ==
    /\ DistinctMatches(matches)
    /\ Readable => DistinctMatches(disk.data.matches)

\* the state file holds the two matches of the first round of four
\* contestants and the match of the second round between two of them
C30_Witness ==
    /\ Readable
    /\ Len(disk.data.matches) = 3
    /\ disk.data.matches[1].round_num = 1
    /\ disk.data.matches[2].round_num = 1
    /\ disk.data.matches[3].round_num = 2
    /\ disk.data.matches[3].id[2] = disk.data.matches[1].id[2]
    /\ matches = disk.data.matches

====
